---- MODULE Spec2Model ----
(***************************************************************************)
(* Model of scripts/download_cargo_deps.py: fetching Cargo.toml manifests, *)
(* extracting their dependency sections, splitting the sections into       *)
(* blank-line groups and storing the groups in a content-addressed store   *)
(* with named links.                                                       *)
(*                                                                         *)
(* Text is a sequence of symbols.  A symbol is one character ("[", "=",    *)
(* " ", "\r", "\n", ...) or an atomic run of characters that holds none of *)
(* the characters the code looks at (a word such as "dependencies").       *)
(***************************************************************************)
EXTENDS Integers, Sequences, FiniteSets, TLC

VARIABLES
    pc,              \* position of the modelled function / loop
    content,         \* argument of split_by_blank_lines / extract_dependency_sections
    lines,           \* content.split('\n')
    pos,             \* index (1-based) of the next line the for loop takes
    start_idx,       \* split_by_blank_lines: number of leading lines skipped
    groups,          \* split_by_blank_lines: the result list
    current_group,   \* split_by_blank_lines: lines of the group being built
    in_multiline,    \* split_by_blank_lines
    bracket_count,   \* split_by_blank_lines
    sections,        \* extract_dependency_sections: the result dict
    current_section, \* extract_dependency_sections: name of the open section, or None
    current_content, \* extract_dependency_sections: lines of the open section
    repos,           \* main: the repository list, each with name and default_branch
    repo_idx,        \* main: index (1-based) of the repository the for loop is at
    requests,        \* download_cargo_toml: the requests of the current or last call
    fetched,         \* main: what download_cargo_toml returned (content, line 390)
    stats,           \* main: the downloaded and failed counters
    cargo_tomls,     \* main: the manifest snapshots written (lines 398-402)
    hash_dir,        \* snippets/cargo-hashed: file name -> bytes of the file
    grouped_dir,     \* snippets/cargo-grouped: link name -> name of the file linked to
    hash_registry,   \* main: short hash -> source identifiers, of this run
    calls,           \* the save_grouped_snippet calls of the run so far, in order
    finished,        \* the calls of the last run that ended (its input)
    snapshot,        \* the two directories as that run left them
    ncalls           \* number of calls with newly chosen input so far

textVars == <<content, lines, pos>>

splitVars == <<start_idx, groups, current_group, in_multiline, bracket_count>>

extractVars == <<sections, current_section, current_content>>

fetchVars == <<repos, repo_idx, requests, fetched, stats, cargo_tomls>>

storeVars == <<hash_dir, grouped_dir, hash_registry, calls, finished,
               snapshot, ncalls>>

vars == <<pc, textVars, splitVars, extractVars, fetchVars, storeVars>>

(***************************************************************************)
(* Bounds of the model.                                                    *)
(***************************************************************************)
MaxLines == 4
MaxManifestLines == 4
NumRepos == 2
MaxCalls == 2

(***************************************************************************)
(* str methods and re patterns the code uses, on symbol sequences.         *)
(***************************************************************************)
NL == "\n"

\* Python's None.
None == "None"

(***************************************************************************)
(* The state of the parts a specification does not run.                    *)
(***************************************************************************)
TextIdle == content = <<>> /\ lines = <<>> /\ pos = 0

SplitIdle ==
    /\ start_idx = 0
    /\ groups = <<>>
    /\ current_group = <<>>
    /\ in_multiline = FALSE
    /\ bracket_count = 0

ExtractIdle ==
    /\ sections = <<>>
    /\ current_section = None
    /\ current_content = <<>>

FetchIdle ==
    /\ repos = <<>>
    /\ repo_idx = 0
    /\ requests = <<>>
    /\ fetched = None
    /\ stats = <<>>
    /\ cargo_tomls = <<>>

StoreIdle ==
    /\ hash_dir = <<>>
    /\ grouped_dir = <<>>
    /\ hash_registry = <<>>
    /\ calls = <<>>
    /\ finished = <<>>
    /\ snapshot = <<>>
    /\ ncalls = 0

\* The characters str.strip() removes.
Whitespace == {" ", "\t", "\r", "\n"}

RECURSIVE LStrip(_)
LStrip(s) ==
    IF s # <<>> /\ Head(s) \in Whitespace THEN LStrip(Tail(s)) ELSE s

RECURSIVE RStrip(_)
RStrip(s) ==
    IF s # <<>> /\ s[Len(s)] \in Whitespace
    THEN RStrip(SubSeq(s, 1, Len(s) - 1))
    ELSE s

\* str.strip()
Strip(s) == RStrip(LStrip(s))

\* str.startswith(prefix)
StartsWith(s, prefix) ==
    /\ Len(s) >= Len(prefix)
    /\ SubSeq(s, 1, Len(prefix)) = prefix

\* str.count(c) for a one-character c
RECURSIVE Count(_, _)
Count(s, c) ==
    IF s = <<>> THEN 0
    ELSE (IF Head(s) = c THEN 1 ELSE 0) + Count(Tail(s), c)

\* str.split(sep) for a one-character sep: always at least one piece.
RECURSIVE SplitAcc(_, _, _)
SplitAcc(s, sep, cur) ==
    IF s = <<>> THEN <<cur>>
    ELSE IF Head(s) = sep THEN <<cur>> \o SplitAcc(Tail(s), sep, <<>>)
    ELSE SplitAcc(Tail(s), sep, Append(cur, Head(s)))

Split(s, sep) == SplitAcc(s, sep, <<>>)

\* sep.join(parts)
RECURSIVE Join(_, _)
Join(parts, sep) ==
    IF parts = <<>> THEN <<>>
    ELSE IF Len(parts) = 1 THEN parts[1]
    ELSE parts[1] \o sep \o Join(Tail(parts), sep)

\* re.match(r'^\[.*\]$', line.strip()): the stripped line holds no newline,
\* so the pattern asks for a first '[' and a last ']' that are two characters.
IsBracketHeader(line) ==
    LET s == Strip(line)
    IN  /\ Len(s) >= 2
        /\ s[1] = "["
        /\ s[Len(s)] = "]"

(***************************************************************************)
(* split_by_blank_lines                                                    *)
(***************************************************************************)

\* The lines the inputs of split_by_blank_lines are built from.
DepLine     == <<"a", " ", "=", " ", "1">>
BlankLine   == <<>>
SpaceLine   == <<" ">>
CommentLine == <<"#", " ", "k", "=", "v">>
OpenLine    == <<"b", " ", "=", " ", "[">>
CloseLine   == <<"]">>
InlineLine  == <<"c", " ", "=", " ", "{", "}">>
HeaderLine  == <<"[", "dependencies", "]">>
BareLine    == <<"x", ",">>

LinePool ==
    {DepLine, BlankLine, SpaceLine, CommentLine, OpenLine, CloseLine,
     InlineLine, HeaderLine, BareLine}

\* foo, bar with a features array spread over lines with blank lines in it,
\* a blank line, baz.
ExampleLines ==
    << <<"foo", " ", "=", " ", "1.0">>,
       <<"bar", " ", "=", " ", "{", " ", "version", " ", "=", " ", "2.0", ",",
         " ", "features", " ", "=", " ", "[">>,
       <<>>,
       <<"x", ",", " ", "y">>,
       <<>>,
       <<"]", " ", "}">>,
       <<>>,
       <<"baz", " ", "=", " ", "3.0">> >>

\* foo followed by two lines of closers that match nothing, a blank line, bar
\* with a features array spread over lines with a blank line in it, a blank
\* line, baz.
UnmatchedLines ==
    << <<"foo", " ", "=", " ", "1.0">>,
       <<"]", " ", "}">>,
       <<"]">>,
       <<>>,
       <<"bar", " ", "=", " ", "{", " ", "version", " ", "=", " ", "2.0", ",",
         " ", "features", " ", "=", " ", "[">>,
       <<>>,
       <<"x", ",", " ", "y">>,
       <<"]", " ", "}">>,
       <<>>,
       <<"baz", " ", "=", " ", "3.0">> >>

SplitInputs ==
    {Join(ls, <<NL>>) :
        ls \in UNION {[1..n -> LinePool] : n \in 1..MaxLines}}
    \cup {Join(ExampleLines, <<NL>>), Join(UnmatchedLines, <<NL>>)}

\* Lines 181-186: the index after the first line, anywhere in the input,
\* that matches the bracketed-header pattern; 0 when no line matches.
StartIdx(ls) ==
    LET H == {i \in 1..Len(ls) : IsBracketHeader(ls[i])}
    IN  IF H = {} THEN 0
        ELSE CHOOSE i \in H : \A j \in H : i <= j

\* Lines 194-195 and 201-202.
OpenCount(line)  == Count(line, "[") + Count(line, "{")
CloseCount(line) == Count(line, "]") + Count(line, "}")

\* TrackBrackets with a slip: a line starts a multi-line entry as soon as it
\* opens a bracket, whether or not it closes it.
TrackBracketsOpenOnly(multi, count, line) ==
    IF ~multi
    THEN IF OpenCount(line) > 0
         THEN [in_multiline |-> TRUE, bracket_count |-> OpenCount(line)]
         ELSE [in_multiline |-> multi, bracket_count |-> count]
    ELSE LET c == count + OpenCount(line) - CloseCount(line)
         IN  IF c <= 0
             THEN [in_multiline |-> FALSE, bracket_count |-> 0]
             ELSE [in_multiline |-> TRUE, bracket_count |-> c]

\* TrackBrackets with a slip: the count is the running sum of opens minus
\* closes and is never set back to 0, so closers that match nothing leave it
\* negative.
TrackBracketsNoClamp(multi, count, line) ==
    LET c == count + OpenCount(line) - CloseCount(line)
    IN  [in_multiline |-> c > 0, bracket_count |-> c]

\* Lines 191-206: the multi-line state after a line.
TrackBrackets(multi, count, line) ==
    IF ~multi
    THEN IF OpenCount(line) > CloseCount(line)
         THEN [in_multiline |-> TRUE,
               bracket_count |-> OpenCount(line) - CloseCount(line)]
         ELSE [in_multiline |-> multi, bracket_count |-> count]
    ELSE LET c == count + OpenCount(line) - CloseCount(line)
         IN  IF c <= 0
             THEN [in_multiline |-> FALSE, bracket_count |-> 0]
             ELSE [in_multiline |-> TRUE, bracket_count |-> c]

\* IsDepLine with a slip: the test for a comment is left out.
IsDepLineAnyEquals(l) ==
    /\ Strip(l) # <<>>
    /\ Count(l, "=") > 0

\* Lines 213-216 and 225-228: l.strip() and not l.strip().startswith('#')
\* and '=' in l, for some line l of the group.
IsDepLine(l) ==
    /\ Strip(l) # <<>>
    /\ ~StartsWith(Strip(l), <<"#">>)
    /\ Count(l, "=") > 0

HasDeps(group) == \E i \in 1..Len(group) : IsDepLine(group[i])

\* Lines 217-218 and 229-230: the result list after a group is closed.
CloseGroup(gs, group) ==
    IF HasDeps(group) THEN Append(gs, Join(group, <<NL>>)) ELSE gs

SplitInit ==
    /\ pc = "split_start"
    /\ content \in SplitInputs
    /\ lines = <<>>
    /\ pos = 0
    /\ SplitIdle
    /\ ExtractIdle
    /\ FetchIdle
    /\ StoreIdle

\* Lines 175-186.
SplitStart ==
    /\ pc = "split_start"
    /\ lines' = Split(content, NL)
    /\ start_idx' = StartIdx(lines')
    /\ pos' = start_idx' + 1
    /\ pc' = "split_scan"
    /\ UNCHANGED <<content, groups, current_group, in_multiline, bracket_count>>
    /\ UNCHANGED <<extractVars, fetchVars, storeVars>>

\* Lines 188-221: one turn of the for loop.
SplitLine ==
    /\ pc = "split_scan"
    /\ pos <= Len(lines)
    /\ LET line     == lines[pos]
           stripped == Strip(line)
           t        == TrackBrackets(in_multiline, bracket_count, line)
       IN  /\ in_multiline' = t.in_multiline
           /\ bracket_count' = t.bracket_count
           /\ IF stripped = <<>> /\ ~t.in_multiline
              THEN IF current_group # <<>>
                   THEN /\ groups' = CloseGroup(groups, current_group)
                        /\ current_group' = <<>>
                   ELSE UNCHANGED <<groups, current_group>>
              ELSE /\ current_group' = Append(current_group, line)
                   /\ UNCHANGED groups
    /\ pos' = pos + 1
    /\ UNCHANGED <<pc, content, lines, start_idx>>
    /\ UNCHANGED <<extractVars, fetchVars, storeVars>>

\* Lines 223-232: the last group, and the return.
SplitReturn ==
    /\ pc = "split_scan"
    /\ pos > Len(lines)
    /\ groups' = IF current_group # <<>>
                 THEN CloseGroup(groups, current_group)
                 ELSE groups
    /\ pc' = "split_done"
    /\ UNCHANGED <<content, lines, pos, start_idx, current_group,
                   in_multiline, bracket_count>>
    /\ UNCHANGED <<extractVars, fetchVars, storeVars>>

SplitNext == SplitStart \/ SplitLine \/ SplitReturn

SpecSplit == SplitInit /\ [][SplitNext]_vars

(***************************************************************************)
(* Properties of split_by_blank_lines                                      *)
(***************************************************************************)

Range(s) == {s[i] : i \in 1..Len(s)}

IsBlank(l) == Strip(l) = <<>>

Surplus(l) ==
    Cardinality({i \in 1..Len(l) : l[i] \in {"[", "{"}})
    - Cardinality({i \in 1..Len(l) : l[i] \in {"]", "}"}})

\* Opens minus closes summed over lines from..to of ls.
RECURSIVE RawDepth(_, _, _)
RawDepth(ls, from, to) ==
    IF to < from THEN 0
    ELSE RawDepth(ls, from, to - 1) + Surplus(ls[to])

\* The same sum, set back to 0 after every line that takes it below 0.
RECURSIVE ClampedDepth(_, _, _)
ClampedDepth(ls, from, to) ==
    IF to < from THEN 0
    ELSE LET d == ClampedDepth(ls, from, to - 1) + Surplus(ls[to])
         IN  IF d < 0 THEN 0 ELSE d

\* The loop takes a blank line: with depth d > 0 before it the line joins the
\* group, with d = 0 the group ends (and is returned if it has a dependency).
BlankLineStep(d) ==
    (pc = "split_scan" /\ pos <= Len(lines) /\ IsBlank(lines[pos])) =>
        /\ d > 0 => /\ current_group' = Append(current_group, lines[pos])
                    /\ groups' = groups
        /\ d = 0 => /\ current_group' = <<>>
                    /\ \/ groups' = groups
                       \/ groups' = Append(groups, Join(current_group, <<NL>>))

ExampleGroups ==
    << Join(SubSeq(ExampleLines, 1, 6), <<NL>>),
       Join(SubSeq(ExampleLines, 8, 8), <<NL>>) >>

ExampleResult ==
    (pc = "split_done" /\ content = Join(ExampleLines, <<NL>>)) =>
        groups = ExampleGroups

\* C5 as stated: the depth is the plain sum of opens minus closes over the
\* lines before the blank line.  No group ends at a blank line at depth > 0,
\* every group ends at a blank line at depth 0, and the example input gives
\* its two groups.
C5_RawDepthDecidesSplit ==
    /\ [][BlankLineStep(RawDepth(lines, start_idx + 1, pos - 1))]_vars
    /\ []ExampleResult

\* C5 amended: the depth is the sum of opens minus closes over the lines
\* before the blank line, set back to 0 whenever a line takes it below 0.  No
\* group ends at a blank line at depth > 0, every group ends at a blank line
\* at depth 0 (also right after a line that opens and closes its brackets),
\* and the example input gives exactly its two groups.
C5_ClampedDepthDecidesSplit ==
    /\ [][BlankLineStep(ClampedDepth(lines, start_idx + 1, pos - 1))]_vars
    /\ []ExampleResult

\* A finished scan that kept a blank line inside a returned group (depth > 0)
\* and ended a group at a blank line that follows a line whose brackets open
\* and close on it (depth 0).
C5_Witness ==
    /\ pc = "split_done"
    /\ Len(groups) >= 2
    /\ \E g \in Range(groups) : \E l \in Range(Split(g, NL)) : IsBlank(l)
    /\ \E i \in (start_idx + 1)..(Len(lines) - 1) :
           /\ Surplus(lines[i]) = 0
           /\ OpenCount(lines[i]) > 0
           /\ IsBlank(lines[i + 1])
           /\ \E g \in Range(groups) :
                  LET gl == Split(g, NL) IN gl[Len(gl)] = lines[i]

\* C6: every returned group has a line that, trimmed, is not empty, does not
\* start with '#' and holds '='; so no group of only comment and blank lines
\* is returned, closed by a blank line or by the end of the input.
C6_GroupsHaveDependency ==
    \A g \in Range(groups) :
        \E l \in Range(Split(g, NL)) :
            /\ Strip(l) # <<>>
            /\ Head(Strip(l)) # "#"
            /\ "=" \in Range(l)

\* A finished scan that returned a group and dropped one: a scanned comment
\* line holding '=' is in no returned group.
C6_Witness ==
    /\ pc = "split_done"
    /\ groups # <<>>
    /\ \E i \in (start_idx + 1)..Len(lines) :
           /\ Head(Strip(lines[i] \o <<"-">>)) = "#"
           /\ "=" \in Range(lines[i])
           /\ \A g \in Range(groups) : lines[i] \notin Range(Split(g, NL))

Unmatched(k) ==
    ClampedDepth(lines, start_idx + 1, k - 1) + Surplus(lines[k]) < 0

\* Lines k..(pos - 1) have been scanned, line k has unmatched closers and no
\* line after it up to the one before the last scanned opens more than it
\* closes.
AfterUnmatched(k) ==
    /\ k \in (start_idx + 1)..(pos - 1)
    /\ Unmatched(k)
    /\ \A i \in (k + 1)..(pos - 2) : Surplus(lines[i]) <= 0

\* C11: the tracked depth is never negative in any state of the scan; it is
\* the sum of opens minus closes set back to 0 by closers that match nothing,
\* and a multi-line span is open exactly at depth > 0.  Right after a line of
\* unmatched closers the depth is 0; after any number of such lines the next
\* blank line ends the current group, and a later line that opens more than it
\* closes starts a span whose depth is that line's own surplus of openers.
C11_DepthNeverNegative ==
    pc \in {"split_scan", "split_done"} =>
        /\ bracket_count >= 0
        /\ bracket_count = ClampedDepth(lines, start_idx + 1, pos - 1)
        /\ in_multiline <=> bracket_count > 0
        /\ \A k \in 1..Len(lines) :
               AfterUnmatched(k) =>
                   LET last == lines[pos - 1]
                   IN  /\ k = pos - 1 => bracket_count = 0 /\ ~in_multiline
                       /\ (k < pos - 1 /\ IsBlank(last)) =>
                              /\ current_group = <<>>
                              /\ bracket_count = 0
                       /\ (k < pos - 1 /\ Surplus(last) > 0) =>
                              /\ in_multiline
                              /\ bracket_count = Surplus(last)
                              /\ current_group # <<>>
                              /\ current_group[Len(current_group)] = last

\* The scan has just taken a line that opens two brackets more than it closes
\* and is at depth 2, after two lines of unmatched closers and a blank line
\* that ended the group holding them, which was returned.
C11_Witness ==
    /\ pc = "split_scan"
    /\ bracket_count = 2
    /\ in_multiline
    /\ Len(groups) = 1
    /\ \E k \in (start_idx + 2)..(pos - 3) :
           /\ Unmatched(k - 1)
           /\ Unmatched(k)
           /\ IsBlank(lines[k + 1])
           /\ pos = k + 3
           /\ Surplus(lines[k + 2]) = 2
           /\ CloseLine \in Range(Split(groups[1], NL))
           /\ current_group = <<lines[k + 2]>>

(***************************************************************************)
(* extract_dependency_sections                                             *)
(***************************************************************************)

\* The lines the manifests are built from.
DepsHeader      == <<"[", "dependencies", "]">>
DepsHeaderUpper == <<"[", "Dependencies", "]">>
DepsHeaderNote  == <<" ", "[", "dependencies", "]", " ", "#", "pinned">>
DevHeader       == <<"[", "dev-dependencies", "]">>
PackageHeader   == <<" ", "[", "package", "]", "\r">>
OtherDepLine    == <<"n", " ", "=", " ", "2">>

ManifestLinePool ==
    {DepsHeader, DepsHeaderUpper, DepsHeaderNote, DevHeader, PackageHeader,
     DepLine, OtherDepLine}

ManifestInputs ==
    {Join(ls, <<NL>>) :
        ls \in UNION {[1..n -> ManifestLinePool] : n \in 1..MaxManifestLines}}

\* Lines 125-130.
section_patterns ==
    << <<DepsHeader, "dependencies">>,
       <<DevHeader, "dev-dependencies">>,
       << <<"[", "build-dependencies", "]">>, "build-dependencies" >>,
       << <<"[", "workspace.dependencies", "]">>, "workspace.dependencies" >> >>

SectionNames == {section_patterns[i][2] : i \in 1..Len(section_patterns)}

\* Case folding of re.IGNORECASE, on the symbols of the line pool.
Lower(c) == IF c = "Dependencies" THEN "dependencies" ELSE c

\* Line 140: re.match(pattern, line.strip(), re.IGNORECASE), a match of the
\* pattern at the start of the stripped line.
MatchesPattern(pattern, line) ==
    LET s == Strip(line)
    IN  /\ Len(s) >= Len(pattern)
        /\ \A i \in 1..Len(pattern) : Lower(s[i]) = Lower(pattern[i])

\* Lines 138-142: the name of the first pattern the line matches, or None.
NewSection(line) ==
    LET M == {i \in 1..Len(section_patterns) :
                 MatchesPattern(section_patterns[i][1], line)}
    IN  IF M = {} THEN None
        ELSE section_patterns[CHOOSE i \in M : \A j \in M : i <= j][2]

\* sections[name] = value
DictSet(d, name, value) ==
    [n \in DOMAIN d \cup {name} |-> IF n = name THEN value ELSE d[n]]

\* Lines 147-148, 155-156 and 163-164.
Flush(secs, cs, cc) ==
    IF cs # None /\ cc # <<>>
    THEN DictSet(secs, cs, Join(cc, <<NL>>))
    ELSE secs

\* ExtractStep with a slip: only the recognized headers end a section, any
\* other bracketed line is collected like a dependency line.
ExtractStepKeepsOpen(secs, cs, cc, line) ==
    LET new_section == NewSection(line)
    IN  IF new_section # None
        THEN [sections |-> Flush(secs, cs, cc),
              current_section |-> new_section,
              current_content |-> <<line>>]
        ELSE IF cs # None
        THEN [sections |-> secs,
              current_section |-> cs,
              current_content |-> Append(cc, line)]
        ELSE [sections |-> secs,
              current_section |-> cs,
              current_content |-> cc]

\* Lines 137-160: the loop's state after one line.
ExtractStep(secs, cs, cc, line) ==
    LET new_section == NewSection(line)
    IN  IF new_section = None /\ IsBracketHeader(line)
        THEN [sections |-> Flush(secs, cs, cc),
              current_section |-> None,
              current_content |-> <<>>]
        ELSE IF new_section # None
        THEN [sections |-> Flush(secs, cs, cc),
              current_section |-> new_section,
              current_content |-> <<line>>]
        ELSE IF cs # None
        THEN [sections |-> secs,
              current_section |-> cs,
              current_content |-> Append(cc, line)]
        ELSE [sections |-> secs,
              current_section |-> cs,
              current_content |-> cc]

ExtractInit ==
    /\ pc = "extract_start"
    /\ content \in ManifestInputs
    /\ lines = <<>>
    /\ pos = 0
    /\ ExtractIdle
    /\ SplitIdle
    /\ FetchIdle
    /\ StoreIdle

\* Lines 122-134.
ExtractStart ==
    /\ pc = "extract_start"
    /\ lines' = Split(content, NL)
    /\ pos' = 1
    /\ sections' = <<>>
    /\ current_section' = None
    /\ current_content' = <<>>
    /\ pc' = "extract_scan"
    /\ UNCHANGED <<content, splitVars, fetchVars, storeVars>>

\* Lines 136-160: one turn of the for loop.
ExtractLine ==
    /\ pc = "extract_scan"
    /\ pos <= Len(lines)
    /\ LET r == ExtractStep(sections, current_section, current_content,
                            lines[pos])
       IN  /\ sections' = r.sections
           /\ current_section' = r.current_section
           /\ current_content' = r.current_content
    /\ pos' = pos + 1
    /\ UNCHANGED <<pc, content, lines, splitVars, fetchVars, storeVars>>

\* Lines 162-166: the last section, and the return.
ExtractReturn ==
    /\ pc = "extract_scan"
    /\ pos > Len(lines)
    /\ sections' = Flush(sections, current_section, current_content)
    /\ pc' = "extract_done"
    /\ UNCHANGED <<content, lines, pos, current_section, current_content,
                   splitVars, fetchVars, storeVars>>

ExtractNext == ExtractStart \/ ExtractLine \/ ExtractReturn

SpecExtract == ExtractInit /\ [][ExtractNext]_vars

(***************************************************************************)
(* Properties of extract_dependency_sections                               *)
(***************************************************************************)

IsRecognized(l) == NewSection(l) # None
IsOtherHeader(l) == ~IsRecognized(l) /\ IsBracketHeader(l)
IsAnyHeader(l) == IsRecognized(l) \/ IsOtherHeader(l)

\* The index of the first header line of ls after line i and before line p,
\* or p when there is none.
NextHeader(ls, i, p) ==
    LET H == {k \in (i + 1)..(p - 1) : IsAnyHeader(ls[k])}
    IN  IF H = {} THEN p ELSE CHOOSE k \in H : \A j \in H : k <= j

\* The indices below p of the recognized headers named n whose section has
\* been closed by a later header line below p (or by the end, when final).
ClosedStarts(ls, n, p, final) ==
    {i \in 1..(p - 1) :
        /\ NewSection(ls[i]) = n
        /\ final \/ NextHeader(ls, i, p) < p}

Last(S) == CHOOSE i \in S : \A j \in S : j <= i

\* What the result holds once lines 1..p-1 are taken: for each recognized name
\* the lines from its last closed header up to the next header line.
SectionsOf(ls, p, final) ==
    [n \in {m \in SectionNames : ClosedStarts(ls, m, p, final) # {}} |->
        LET i == Last(ClosedStarts(ls, n, p, final))
        IN  Join(SubSeq(ls, i, NextHeader(ls, i, p) - 1), <<NL>>)]

\* C9: a bracketed header line that is none of the four recognized headers
\* closes the open section: the lines collected before it are stored under
\* the section's name, the lines after it up to the next recognized header
\* are in no section, and a manifest with no recognized header gives an empty
\* mapping.
C9_OtherHeaderClosesSection ==
    /\ pc = "extract_scan" =>
          /\ sections = SectionsOf(lines, pos, FALSE)
          /\ LET H == {k \in 1..(pos - 1) : IsAnyHeader(lines[k])}
             IN  IF H = {} \/ IsOtherHeader(lines[Last(H \cup {0})])
                 THEN current_section = None /\ current_content = <<>>
                 ELSE /\ current_section = NewSection(lines[Last(H)])
                      /\ current_content = SubSeq(lines, Last(H), pos - 1)
    /\ pc = "extract_done" =>
          /\ sections = SectionsOf(lines, Len(lines) + 1, TRUE)
          /\ (\A k \in 1..Len(lines) : ~IsRecognized(lines[k])) =>
                 DOMAIN sections = {}

\* A finished extraction in which an unrecognized header closed a section
\* that had lines, and a line after it is in no section of the result.
C9_Witness ==
    /\ pc = "extract_done"
    /\ \E i \in 1..Len(lines) : \E n \in DOMAIN sections :
           /\ IsOtherHeader(lines[i])
           /\ i > 2
           /\ NewSection(lines[i - 2]) = n
           /\ sections[n] = Join(SubSeq(lines, i - 2, i - 1), <<NL>>)
           /\ i < Len(lines)
           /\ ~IsAnyHeader(lines[i + 1])
           /\ \A m \in DOMAIN sections :
                  lines[i + 1] \notin Range(Split(sections[m], NL))

(***************************************************************************)
(* download_cargo_toml and the repository loop of main                     *)
(***************************************************************************)

RepoNames == <<"r1", "r2", "r3", "r4">>
Branches == {"main", "master", "trunk"}
Bodies == {"toml_a", "toml_b"}
HttpCodes == {403, 404, 500}

\* What urlopen(...).read().decode() of one request can do: give the text,
\* raise urllib.error.HTTPError with a code, or raise something else (a
\* timeout, a URLError for a refused or reset connection).
Outcomes ==
    [kind : {"ok"}, body : Bodies]
    \cup [kind : {"http"}, code : HttpCodes]
    \cup [kind : {"timeout", "urlerror"}]

\* Line 100.
AltBranch(branch) == IF branch = "main" THEN "master" ELSE "main"

\* AfterPrimary with a slip: every HTTP error, not only 404, leads to the
\* alternate request.
AfterPrimaryRetryAnyHttp(out) ==
    IF out.kind = "ok" THEN [next |-> "return", value |-> out.body]
    ELSE IF out.kind = "http" THEN [next |-> "alt", value |-> None]
    ELSE [next |-> "return", value |-> None]

\* Lines 92-98 and 110-114: what follows the primary request.  "alt" is the
\* second request of lines 100-106; "return" leaves the function with value.
AfterPrimary(out) ==
    IF out.kind = "ok" THEN [next |-> "return", value |-> out.body]
    ELSE IF out.kind = "http"
    THEN IF out.code = 404
         THEN [next |-> "alt", value |-> None]
         ELSE [next |-> "return", value |-> None]
    ELSE [next |-> "return", value |-> None]

\* Lines 102-109: what follows the alternate request.  Its try statement has
\* one handler, for HTTPError; the handlers of the outer try statement do not
\* cover the body of an except clause, so any other exception leaves the
\* function.
AfterAlt(out) ==
    IF out.kind = "ok" THEN [next |-> "return", value |-> out.body]
    ELSE IF out.kind = "http" THEN [next |-> "return", value |-> None]
    ELSE [next |-> "raise", value |-> None]

\* Lines 391-402: main takes the value download_cargo_toml returned.
TakeResult(value) ==
    /\ fetched' = value
    /\ IF value = None
       THEN /\ stats' = [stats EXCEPT !.failed = @ + 1]
            /\ UNCHANGED cargo_tomls
       ELSE /\ stats' = [stats EXCEPT !.downloaded = @ + 1]
            /\ cargo_tomls' = DictSet(cargo_tomls, repos[repo_idx].name, value)
    /\ repo_idx' = repo_idx + 1
    /\ pc' = "main_loop"

FetchInit ==
    /\ pc = "main_loop"
    /\ repos \in [1..NumRepos -> [name : Range(RepoNames), default_branch : Branches]]
    /\ \A i \in 1..NumRepos : repos[i].name = RepoNames[i]
    /\ repo_idx = 1
    /\ requests = <<>>
    /\ fetched = None
    /\ stats = [downloaded |-> 0, failed |-> 0]
    /\ cargo_tomls = <<>>
    /\ TextIdle
    /\ SplitIdle
    /\ ExtractIdle
    /\ StoreIdle

\* Lines 385-390 and 91-98, 110-114: the loop takes a repository and
\* download_cargo_toml makes its first request.
PrimaryRequest ==
    /\ pc = "main_loop"
    /\ repo_idx <= Len(repos)
    /\ \E out \in Outcomes :
         LET req == [branch |-> repos[repo_idx].default_branch, outcome |-> out]
             r   == AfterPrimary(out)
         IN  /\ requests' = <<req>>
             /\ IF r.next = "alt"
                THEN /\ pc' = "dl_alt"
                     /\ UNCHANGED <<fetched, stats, cargo_tomls, repo_idx>>
                ELSE TakeResult(r.value)
    /\ UNCHANGED <<repos, textVars, splitVars, extractVars, storeVars>>

\* Lines 99-109: the request for the alternate branch.
AltRequest ==
    /\ pc = "dl_alt"
    /\ \E out \in Outcomes :
         LET req == [branch |-> AltBranch(repos[repo_idx].default_branch),
                     outcome |-> out]
             r   == AfterAlt(out)
         IN  /\ requests' = Append(requests, req)
             /\ IF r.next = "raise"
                THEN /\ pc' = "main_raised"
                     /\ UNCHANGED <<fetched, stats, cargo_tomls, repo_idx>>
                ELSE TakeResult(r.value)
    /\ UNCHANGED <<repos, textVars, splitVars, extractVars, storeVars>>

\* Line 385: the list is exhausted.
MainDone ==
    /\ pc = "main_loop"
    /\ repo_idx > Len(repos)
    /\ pc' = "main_done"
    /\ UNCHANGED <<fetchVars, textVars, splitVars, extractVars, storeVars>>

FetchNext == PrimaryRequest \/ AltRequest \/ MainDone

SpecFetch == FetchInit /\ [][FetchNext]_vars

(***************************************************************************)
(* Properties of the fetch                                                 *)
(***************************************************************************)

\* C2: whatever way a repository's fetch fails, on the primary or on the
\* alternate request, download_cargo_toml returns no content, main counts the
\* repository as failed and goes on: no fetch failure ends the run.
C2_FetchFailureIsSkipped ==
    /\ pc # "main_raised"
    /\ pc = "main_loop" => stats.downloaded + stats.failed = repo_idx - 1
    /\ pc = "main_done" => stats.downloaded + stats.failed = Len(repos)

\* The call of download_cargo_toml that last returned, seen from the loop.
CallReturned == pc \in {"main_loop", "main_done"} /\ requests # <<>>

\* C4: the alternate branch is requested at most once per repository, and only
\* after the primary request answered 404; its content on success is returned
\* as a primary success would be, an HTTP error on it gives no content, and
\* any other HTTP error on the primary request causes no second request.
C4_SingleAlternateAfter404 ==
    /\ Len(requests) <= 2
    /\ requests # <<>> =>
          /\ \/ Len(requests) = 1
             \/ /\ requests[1].outcome = [kind |-> "http", code |-> 404]
                /\ requests[2].branch = AltBranch(requests[1].branch)
    /\ pc = "dl_alt" => Len(requests) = 1
    /\ CallReturned =>
          LET last == requests[Len(requests)].outcome
              repo == repos[repo_idx - 1].name
          IN  /\ requests[1].branch = repos[repo_idx - 1].default_branch
              /\ (requests[1].outcome.kind = "http"
                     /\ requests[1].outcome.code # 404) => Len(requests) = 1
              /\ last.kind = "ok" =>
                   /\ fetched = last.body
                   /\ repo \in DOMAIN cargo_tomls
                   /\ cargo_tomls[repo] = last.body
              /\ last.kind = "http" => fetched = None

\* The second repository's call made the alternate request after a 404 and
\* returned its content, after the first repository had failed.
C4_Witness ==
    /\ CallReturned
    /\ Len(requests) = 2
    /\ requests[1].outcome = [kind |-> "http", code |-> 404]
    /\ requests[2].outcome.kind = "ok"
    /\ fetched = requests[2].outcome.body
    /\ stats.downloaded = 1
    /\ stats.failed = 1

(***************************************************************************)
(* compute_content_hash, save_hashed_snippet, create_symlink and           *)
(* save_grouped_snippet, and the runs of main that call them               *)
(***************************************************************************)

StoreRepos == <<"r1", "r2">>
StoreSections == <<"dependencies", "workspace.dependencies">>

\* The group texts the runs save.  MetaCrText is PlainText under a metadata
\* comment, from a manifest with CRLF line ends; CrlfText is a two-line group
\* from such a manifest.
PlainText   == DepLine
MetaCrText  == <<"#", " ", "Source", ":", " ", "up", "\r", NL,
                 "a", " ", "=", " ", "1", "\r">>
CollideText == <<"b", " ", "=", " ", "2">>
CrlfText    == <<"c", " ", "=", " ", "1", "\r", NL,
                 "d", " ", "=", " ", "2", "\r">>

GroupTexts == {PlainText, MetaCrText, CollideText, CrlfText}

\* hashlib.sha256(...).hexdigest(), as <<its first 16 characters, the rest>>,
\* tabulated on the texts the runs can hash: distinct texts have distinct
\* digests, and those of "a = 1" and "b = 2" share their first 16 characters.
Sha256(text) ==
    CASE text = PlainText   -> <<"70e5e3743d69f63a", "e015">>
      [] text = CollideText -> <<"70e5e3743d69f63a", "4b9c">>
      [] text = RStrip(CrlfText) -> <<"c41d2b0677f09a1e", "08d2">>
      [] OTHER -> <<"e3b0c44298fc1c14", "9afb">>

\* Line 80: the prefixes of the metadata comments.
MetadataPrefixes ==
    { <<"#", " ", "Source", ":">>,
      <<"#", " ", "Section", ":">>,
      <<"#", " ", "Auto-generated">> }

IsMetadata(line) ==
    \E prefix \in MetadataPrefixes : StartsWith(Strip(line), prefix)

RECURSIVE DropMetadata(_)
DropMetadata(ls) ==
    IF ls = <<>> THEN <<>>
    ELSE IF IsMetadata(Head(ls)) THEN DropMetadata(Tail(ls))
    ELSE <<Head(ls)>> \o DropMetadata(Tail(ls))

\* Lines 75-85: clean_content.
CleanContent(text) == Strip(Join(DropMetadata(Split(text, NL)), <<NL>>))

\* Lines 72-86.
compute_content_hash(text) == Sha256(CleanContent(text))

\* Lines 238 and 322: section_name.replace('.', '-').replace('/', '-').
SafeSection(section_name) ==
    IF section_name = "workspace.dependencies" THEN "workspace-dependencies"
    ELSE section_name

\* The format spec 02d.
Pad2(n) == IF n < 10 THEN "0" \o ToString(n) ELSE ToString(n)

\* Line 323.
SourceId(repo, section_name, group_index) ==
    repo \o "/" \o SafeSection(section_name) \o "/group" \o Pad2(group_index)

\* Line 334.
SymlinkName(repo, section_name, group_index) ==
    repo \o "_" \o SafeSection(section_name) \o "_group" \o Pad2(group_index)
    \o ".toml"

\* Line 260.
HashFileName(short_hash) == short_hash \o ".toml"

\* The order of str comparison on the symbols a sources line can hold: the
\* space and the punctuation first, then the source identifiers, which
\* compare by repository, section and group number.
SymbolOrder ==
    <<" ", "#", ":">> \o
    [k \in 1..(Len(StoreRepos) * Len(StoreSections) * (MaxCalls + 1)) |->
        SourceId(StoreRepos[((k - 1) \div (Len(StoreSections) * (MaxCalls + 1))) + 1],
                 StoreSections[(((k - 1) \div (MaxCalls + 1)) % Len(StoreSections)) + 1],
                 ((k - 1) % (MaxCalls + 1)) + 1)] \o
    <<"Sources">>

SymbolRank(c) ==
    IF \E k \in 1..Len(SymbolOrder) : SymbolOrder[k] = c
    THEN CHOOSE k \in 1..Len(SymbolOrder) : SymbolOrder[k] = c
    ELSE Len(SymbolOrder) + 1

\* a < b for two str values.
RECURSIVE StrLess(_, _)
StrLess(a, b) ==
    IF b = <<>> THEN FALSE
    ELSE IF a = <<>> THEN TRUE
    ELSE IF Head(a) = Head(b) THEN StrLess(Tail(a), Tail(b))
    ELSE SymbolRank(Head(a)) < SymbolRank(Head(b))

\* sorted(set) of str values.
RECURSIVE Sorted(_)
Sorted(S) ==
    IF S = {} THEN <<>>
    ELSE LET m == CHOOSE x \in S : \A y \in S \ {x} : StrLess(x, y)
         IN  <<m>> \o Sorted(S \ {m})

\* open(filepath, 'r').read(): text mode with universal newlines turns
\* "\r\n" and a single "\r" into "\n".  Writing in text mode on Linux stores
\* the characters as they are.
RECURSIVE ReadText(_)
ReadText(bytes) ==
    IF bytes = <<>> THEN <<>>
    ELSE IF Head(bytes) = "\r"
    THEN IF Len(bytes) >= 2 /\ bytes[2] = NL
         THEN <<NL>> \o ReadText(Tail(Tail(bytes)))
         ELSE <<NL>> \o ReadText(Tail(bytes))
    ELSE <<Head(bytes)>> \o ReadText(Tail(bytes))

SourcesPrefix == <<"#", " ", "Sources", ":">>

\* Lines 265-270: the file of the first writer.
NewHashFile(content_hash, sources, text) ==
    <<"#", " ", "Hash", ":", " ">> \o content_hash \o <<NL>>
    \o SourcesPrefix \o <<" ">> \o Join(sources, <<",", " ">>) \o <<NL>>
    \o <<"#", " ", "Auto-generated", " ", "-", " ", "do", " ", "not", " ",
         "edit", NL, NL>>
    \o text \o <<NL>>

\* The index of the first line that starts with '# Sources:', or 0.
SourcesLineIndex(ls) ==
    LET M == {i \in 1..Len(ls) : StartsWith(ls[i], SourcesPrefix)}
    IN  IF M = {} THEN 0 ELSE CHOOSE i \in M : \A j \in M : i <= j

\* ExistingSources with a slip: the slice starts one character early and
\* keeps the colon of the prefix.
ExistingSourcesEarlySlice(ls) ==
    LET i == SourcesLineIndex(ls)
    IN  IF i = 0 THEN <<>>
        ELSE LET parts == Split(SubSeq(ls[i], Len(SourcesPrefix), Len(ls[i])), ",")
             IN  [k \in 1..Len(parts) |-> Strip(parts[k])]

\* Lines 277-281: [s.strip() for s in line[10:].split(',')] of that line.
ExistingSources(ls) ==
    LET i == SourcesLineIndex(ls)
    IN  IF i = 0 THEN <<>>
        ELSE LET parts == Split(SubSeq(ls[i], Len(SourcesPrefix) + 1, Len(ls[i])), ",")
             IN  [k \in 1..Len(parts) |-> Strip(parts[k])]

\* UpdatedHashFile with a slip: the sources line is rewritten from the new
\* sources alone.
UpdatedHashFileNewOnly(bytes, sources) ==
    LET existing_content == ReadText(bytes)
        ls == Split(existing_content, NL)
        i == SourcesLineIndex(ls)
        line == SourcesPrefix \o <<" ">> \o Join(Sorted(Range(sources)), <<",", " ">>)
    IN  Join([k \in 1..Len(ls) |-> IF k = i THEN line ELSE ls[k]], <<NL>>)

\* Lines 272-294: the file after a later writer.
UpdatedHashFile(bytes, sources) ==
    LET existing_content == ReadText(bytes)
        ls == Split(existing_content, NL)
        all_sources == Range(ExistingSources(ls)) \cup Range(sources)
        i == SourcesLineIndex(ls)
        line == SourcesPrefix \o <<" ">> \o Join(Sorted(all_sources), <<",", " ">>)
    IN  Join([k \in 1..Len(ls) |-> IF k = i THEN line ELSE ls[k]], <<NL>>)

\* Lines 252-296: the hash directory after save_hashed_snippet.
SaveHashed(dir, text, sources) ==
    LET content_hash == compute_content_hash(text)
        filename == HashFileName(content_hash[1])
    IN  IF filename \notin DOMAIN dir
        THEN DictSet(dir, filename, NewHashFile(content_hash, sources, text))
        ELSE DictSet(dir, filename, UpdatedHashFile(dir[filename], sources))

\* CreateSymlink with a slip: a link that exists is kept as it is.
CreateSymlinkKeepExisting(dir, name, target) ==
    IF name \in DOMAIN dir THEN dir ELSE DictSet(dir, name, target)

\* Lines 299-307: the link directory after create_symlink.  A link holds the
\* relative path to its target; the model keeps the target's file name.
CreateSymlink(dir, name, target) ==
    LET removed == IF name \in DOMAIN dir
                   THEN [n \in DOMAIN dir \ {name} |-> dir[n]]
                   ELSE dir
    IN  DictSet(removed, name, target)

\* Lines 326-328.
Register(registry, short_hash, source_id) ==
    LET r == IF short_hash \notin DOMAIN registry
             THEN DictSet(registry, short_hash, <<>>)
             ELSE registry
    IN  DictSet(r, short_hash, Append(r[short_hash], source_id))

\* Lines 310-338: save_grouped_snippet for one group.
SaveGrouped(c) ==
    LET short_hash == compute_content_hash(c.content)[1]
        source_id  == SourceId(c.repo, c.section_name, c.group_index)
    IN  /\ hash_registry' = Register(hash_registry, short_hash, source_id)
        /\ hash_dir' = SaveHashed(hash_dir, c.content, << <<source_id>> >>)
        /\ grouped_dir' =
               CreateSymlink(grouped_dir,
                             SymlinkName(c.repo, c.section_name, c.group_index),
                             HashFileName(short_hash))
        /\ calls' = Append(calls, [c EXCEPT !.short_hash = short_hash])

RepoIndex(repo) == CHOOSE i \in 1..Len(StoreRepos) : StoreRepos[i] = repo

\* Lines 385-419: the (repository, section, group number) the loops of main
\* can reach next in a run: the next group of the same section, the first
\* group of a section of the same repository not yet taken, or the first
\* group of a section of a later repository.
NextTriples(cs) ==
    IF cs = <<>>
    THEN {<<r, sec, 1>> : r \in Range(StoreRepos), sec \in Range(StoreSections)}
    ELSE LET last == cs[Len(cs)]
             taken == {cs[i].section_name :
                          i \in {k \in 1..Len(cs) : cs[k].repo = last.repo}}
         IN  {<<last.repo, last.section_name, last.group_index + 1>>}
             \cup {<<last.repo, sec, 1>> : sec \in Range(StoreSections) \ taken}
             \cup {<<r, sec, 1>> :
                      r \in {x \in Range(StoreRepos) : RepoIndex(x) > RepoIndex(last.repo)},
                      sec \in Range(StoreSections)}

StoreInit ==
    /\ pc = "store_run"
    /\ hash_dir = <<>>
    /\ grouped_dir = <<>>
    /\ hash_registry = <<>>
    /\ calls = <<>>
    /\ finished = <<>>
    /\ snapshot = [hash_dir |-> <<>>, grouped_dir |-> <<>>]
    /\ ncalls = 0
    /\ TextIdle
    /\ SplitIdle
    /\ ExtractIdle
    /\ FetchIdle

otherVars == <<textVars, splitVars, extractVars, fetchVars>>

\* Lines 417-420: main saves the next group of the manifests it was given.
SaveGroup ==
    /\ pc = "store_run"
    /\ ncalls < MaxCalls
    /\ \E t \in NextTriples(calls) : \E text \in GroupTexts :
           SaveGrouped([repo |-> t[1], section_name |-> t[2],
                        group_index |-> t[3], content |-> text,
                        short_hash |-> None])
    /\ ncalls' = ncalls + 1
    /\ UNCHANGED <<pc, finished, snapshot, otherVars>>

\* Lines 424-503: the run ends; the directories stay.
EndRun ==
    /\ pc = "store_run"
    /\ calls # <<>>
    /\ pc' = "store_idle"
    /\ finished' = calls
    /\ snapshot' = [hash_dir |-> hash_dir, grouped_dir |-> grouped_dir]
    /\ UNCHANGED <<hash_dir, grouped_dir, hash_registry, calls, ncalls, otherVars>>

\* Line 377: main is run again on other manifests.
StartRun ==
    /\ pc \in {"store_idle", "store_reran"}
    /\ ncalls < MaxCalls
    /\ pc' = "store_run"
    /\ hash_registry' = <<>>
    /\ calls' = <<>>
    /\ UNCHANGED <<hash_dir, grouped_dir, finished, snapshot, ncalls, otherVars>>

\* Line 377: main is run again on the same repositories and manifests.
StartRerun ==
    /\ pc = "store_idle"
    /\ pc' = "store_rerun"
    /\ hash_registry' = <<>>
    /\ calls' = <<>>
    /\ UNCHANGED <<hash_dir, grouped_dir, finished, snapshot, ncalls, otherVars>>

\* Lines 417-420 in the second run: the same groups, in the same order.
ReplayGroup ==
    /\ pc = "store_rerun"
    /\ Len(calls) < Len(finished)
    /\ SaveGrouped([finished[Len(calls) + 1] EXCEPT !.short_hash = None])
    /\ UNCHANGED <<pc, finished, snapshot, ncalls, otherVars>>

\* Lines 424-503: the second run ends.
EndRerun ==
    /\ pc = "store_rerun"
    /\ Len(calls) = Len(finished)
    /\ pc' = "store_reran"
    /\ UNCHANGED <<storeVars, otherVars>>

StoreNext ==
    SaveGroup \/ EndRun \/ StartRun \/ StartRerun \/ ReplayGroup \/ EndRerun

SpecStore == StoreInit /\ [][StoreNext]_vars

(***************************************************************************)
(* Properties of the store                                                 *)
(***************************************************************************)

\* The bytes of a hash file as lines, and the set its '# Sources:' line names.
FileLines(bytes) == Split(bytes, NL)

SourceSet(bytes) ==
    LET ls == FileLines(bytes)
        i  == CHOOSE k \in 1..Len(ls) : StartsWith(ls[k], SourcesPrefix)
        parts == Split(SubSeq(ls[i], 5, Len(ls[i])), ",")
    IN  {Strip(parts[k]) : k \in 1..Len(parts)}

CallSource(c) == <<SourceId(c.repo, c.section_name, c.group_index)>>

CallLink(c) == SymlinkName(c.repo, c.section_name, c.group_index)

\* The calls of the last run that ended and of the run under way.
SavedCalls == Range(finished) \cup Range(calls)

\* C1: two groups of identical normalized text and different source
\* identifiers get the same 16-character key, and once both are stored, in
\* either order, the one entry's sources hold both identifiers.
C1_SameTextSameEntry ==
    \A c1, c2 \in SavedCalls :
        (CleanContent(c1.content) = CleanContent(c2.content)
           /\ CallSource(c1) # CallSource(c2)) =>
            /\ c1.short_hash = c2.short_hash
            /\ Len(c1.short_hash) = 16
            /\ HashFileName(c1.short_hash) \in DOMAIN hash_dir
            /\ {CallSource(c1), CallSource(c2)}
                   \subseteq SourceSet(hash_dir[HashFileName(c1.short_hash)])

\* One run stored two groups that differ as written, are identical once
\* normalized and come from different repositories.
C1_Witness ==
    \E i, j \in 1..Len(calls) :
        /\ i < j
        /\ calls[i].content # calls[j].content
        /\ CleanContent(calls[i].content) = CleanContent(calls[j].content)
        /\ calls[i].repo # calls[j].repo
        /\ SourceSet(hash_dir[HashFileName(calls[i].short_hash)])
               = {CallSource(calls[i]), CallSource(calls[j])}

\* C3: a second run on the same repositories and manifests leaves the set of
\* content-hash files and each file's source set as they were, and every
\* link resolves to the file it resolved to after the first run.
C3_RerunIsIdempotent ==
    pc = "store_reran" =>
        /\ DOMAIN hash_dir = DOMAIN snapshot.hash_dir
        /\ \A f \in DOMAIN hash_dir :
               SourceSet(hash_dir[f]) = SourceSet(snapshot.hash_dir[f])
        /\ DOMAIN grouped_dir = DOMAIN snapshot.grouped_dir
        /\ \A l \in DOMAIN grouped_dir :
               /\ grouped_dir[l] = snapshot.grouped_dir[l]
               /\ grouped_dir[l] \in DOMAIN hash_dir

\* A second run has ended that went again through two groups stored in one
\* file with two sources.
C3_Witness ==
    /\ pc = "store_reran"
    /\ Len(calls) = 2
    /\ \E f \in DOMAIN hash_dir : Cardinality(SourceSet(hash_dir[f])) = 2

\* A step that saves a group links its (repository, section, group number)
\* to the file named by the truncated hash of its normalized text, and leaves
\* the other links alone.
SaveLinksToHash ==
    Len(calls') = Len(calls) + 1 =>
        LET c == calls'[Len(calls')]
        IN  /\ CallLink(c) \in DOMAIN grouped_dir'
            /\ grouped_dir'[CallLink(c)] =
                   Sha256(CleanContent(c.content))[1] \o ".toml"
            /\ \A l \in DOMAIN grouped_dir \ {CallLink(c)} :
                   l \in DOMAIN grouped_dir' /\ grouped_dir'[l] = grouped_dir[l]

\* C7: after any saves, in one run or across runs, every link resolves to one
\* content-hash file that exists, and the link of the triple saved last goes
\* to the file keyed by the truncated hash of that group's normalized text.
C7_LinksResolve ==
    /\ [](\A l \in DOMAIN grouped_dir : grouped_dir[l] \in DOMAIN hash_dir)
    /\ [][SaveLinksToHash]_vars

\* A later run saved another text under a triple of the run before it: the
\* link was replaced and goes to the new file, and both files exist.
C7_Witness ==
    \E c \in Range(finished) : \E d \in Range(calls) :
        /\ pc = "store_run"
        /\ CallLink(c) = CallLink(d)
        /\ c.short_hash # d.short_hash
        /\ grouped_dir[CallLink(d)] = HashFileName(d.short_hash)
        /\ {HashFileName(c.short_hash), HashFileName(d.short_hash)}
               \subseteq DOMAIN hash_dir

\* The lines of a hash file but its '# Sources:' line (the second one).
LinesButSources(bytes) ==
    LET ls == FileLines(bytes)
    IN  <<ls[1]>> \o SubSeq(ls, 3, Len(ls))

\* C8: a later save that maps to an existing entry changes only its
\* '# Sources:' line, to the sorted union without duplicates of the old
\* sources and the new one; the '# Hash:' line and the content stay those of
\* the first writer, also for a text that only collides on the key.
C8_OnlySourcesLineChanges ==
    [][\A f \in DOMAIN hash_dir :
          /\ f \in DOMAIN hash_dir'
          /\ LinesButSources(hash_dir'[f]) = LinesButSources(hash_dir[f])
          /\ SourceSet(hash_dir[f]) \subseteq SourceSet(hash_dir'[f])]_vars

====
